---- MODULE Spec2Model ----
(***************************************************************************)
(* Incremental reconciliation engine of scripts/medicaments_updater.py:    *)
(* one run of main() reads the dataset file and the state file, discovers  *)
(* the sitemap, decides fetch-or-reuse per entry, folds the fetch          *)
(* outcomes, handles entries absent from the sitemap, applies the drop     *)
(* guard and writes both files.                                            *)
(*                                                                         *)
(* A Record is modelled by its content number, which also stands for its   *)
(* display name (the sort key of the output).  A state entry is modelled   *)
(* as the code reads it, through .get() with its defaults: a missing       *)
(* "lastmod" reads as NoLastmod, a missing streak as 0.                    *)
(***************************************************************************)
EXTENDS Integers, Sequences, FiniteSets, TLC

\* ---------------------------------------------------------------- constants
MISSING_GRACE_RUNS == 3
ABSENT_GRACE_RUNS == 7
\* DROP_GUARD_RATIO = 0.30, as a percentage
DROP_GUARD_PCT == 30

\* exit codes of main(): written, or dry run; fatal; drop guard
EXIT_OK == 0
EXIT_FATAL == 1
EXIT_DROP_GUARD == 2

\* ------------------------------------------------------------------- bounds
\* a fetch outcome `missing` is not drawn once the entry's missingStreak is here
MaxMissingStreak == 4
\* the drop guard on its own is given counts 0..MaxGuardCount
MaxGuardCount == 100
\* --limit is 0 (no limit) or MaxLimit
MaxLimit == 1
\* number of runs followed when the catalogue holds more than one slug; with a
\* single slug runs are followed without limit (the streak cap bounds the states)
MaxRunsCatalogue == 1
\* RateLimiter on its own: threads calling wait(), calls granted in all, and the
\* largest --request-delay and --request-jitter, in clock ticks
MaxWorkers == 4
MaxFetches == 20
MaxInterval == 1
MaxJitter == 1
\* calls granted in all when --request-jitter is not 0
MaxJitterFetches == 5
\* ticks a thread may still be asleep after the time its sleep was to end
MaxLate == 1
\* the fetch phase on its own: the largest --concurrency
MaxConcurrency == 2
\* the two writes on their own: the longest file content, in tokens
MaxPayload == 2

\* slugs, in the order discovered.sort(key=slug) gives them
SlugList == <<"a", "b">>
Slugs == {SlugList[i] : i \in 1..Len(SlugList)}

\* entry.lastmod: None or a date string
NoLastmod == "None"
Lastmods == {NoLastmod, "2024-01"}

\* contents of a Record; legacy rows of the first dataset and fetched pages
LegacyRows == {<<>>, <<2>>, <<2, 3>>}
FetchedContents == {4}

VARIABLES
    dataset,        \* OUTPUT_JSON: slug -> its rows, in file order
    state_records,  \* STATE_JSON["records"]: slug -> state entry
    pc,             \* "idle": no updater process; "exited": main() has returned
    prev_dataset,   \* OUTPUT_JSON as the process that just exited read it
    prev_state,     \* STATE_JSON["records"] as that process read it
    run,            \* what that process was given and what it did
    catalogue,      \* the slugs that exist upstream or in the first dataset
    budget,         \* runs left to follow (counted for a catalogue of several slugs)
    missing_runs,   \* observer: slug -> consecutive runs that wrote and fetched it `missing`
    absent_runs,    \* observer: slug -> consecutive runs that wrote while it had rows
                    \*           and was not discovered
    upstream,       \* observer: the sitemap and fetch outcomes of the last run that
                    \*           wrote, before the process that just exited
    blocked,        \* observer: the sitemap, discovery and fetch outcomes of the last run
                    \*           the drop guard stopped, while no run has written since
    guard,          \* the drop guard on its own: its inputs and its verdict
    limiter,        \* RateLimiter on its own: its fields, the clock and its callers
    fetch,          \* the fetch phase on its own: the loops over to_fetch
    persist,        \* the two write_json calls on their own: the files and a crash
    decide,         \* the fetch-or-reuse decision on its own: its inputs and its verdict
    page            \* one call of fetch_and_parse_medicament: the answer of the site, the outcome

vars == <<dataset, state_records, pc, prev_dataset, prev_state, run, catalogue, budget,
          missing_runs, absent_runs, upstream, blocked, guard, limiter, fetch, persist,
          decide, page>>

observers == <<missing_runs, absent_runs, upstream, blocked>>

\* the variables of the runs of main(), and those of its parts taken on their own
engine == <<dataset, state_records, pc, prev_dataset, prev_state, run, catalogue, budget,
            missing_runs, absent_runs, upstream, blocked>>

parts == <<guard, limiter, fetch, persist, decide, page>>

\* ------------------------------------------------------------- pure helpers
\* prev_state = state_records.get(slug, {}) read through .get() defaults
EmptyState ==
    [status |-> "None", lastmod |-> NoLastmod, missingStreak |-> 0, absentStreak |-> 0]

StateGet(recs, slug) == IF slug \in DOMAIN recs THEN recs[slug] ELSE EmptyState

\* existing_first(slug) is not None
HasExisting(rows_by_slug, slug) == Len(rows_by_slug[slug]) > 0

\* merge_state_entry(prev, **updates), for the four fields the engine reads
merge_state_entry(prev, updates) ==
    [k \in DOMAIN prev |-> IF k \in DOMAIN updates THEN updates[k] ELSE prev[k]]

\* output_records.sort(...): stable sort of one slug's rows by display name
RECURSIVE Insert(_, _)
Insert(sorted, x) ==
    IF sorted = <<>> THEN <<x>>
    ELSE IF x < Head(sorted) THEN <<x>> \o sorted
    ELSE <<Head(sorted)>> \o Insert(Tail(sorted), x)

RECURSIVE SortRows(_)
SortRows(rows) ==
    IF rows = <<>> THEN <<>>
    ELSE Insert(SortRows(SubSeq(rows, 1, Len(rows) - 1)), rows[Len(rows)])

RECURSIVE SumLen(_, _)
SumLen(rows_by_slug, S) ==
    IF S = {} THEN 0
    ELSE LET s == CHOOSE x \in S : TRUE
         IN Len(rows_by_slug[s]) + SumLen(rows_by_slug, S \ {s})

\* len(existing_records), len(output_records)
CountRows(rows_by_slug) == SumLen(rows_by_slug, Slugs)

\* ---------------------------------------------------------------- discovery
\* discovered = sorted(dedup.values())[:limit]; sitemap: slug -> lastmod or "unlisted"
Unlisted == "unlisted"

Discovered(sitemap, limit) ==
    LET listed == SelectSeq(SlugList, LAMBDA s : sitemap[s] # Unlisted)
    IN IF limit > 0 THEN SubSeq(listed, 1, IF limit < Len(listed) THEN limit ELSE Len(listed))
       ELSE listed

SeqToSet(q) == {q[i] : i \in 1..Len(q)}

\* ------------------------------------------------------ fetch-or-reuse decision
bootstrap_mode(recs, full_refresh) == (DOMAIN recs = {}) /\ ~full_refresh

\* mutant: a stored status `ok` is retried like any other status
should_fetch_RetryingOk(full_refresh, bootstrap, existing, prev, lastmod) ==
    IF full_refresh THEN TRUE
    ELSE IF bootstrap /\ existing THEN FALSE
    ELSE IF ~existing THEN TRUE
    ELSE IF prev.lastmod # lastmod THEN TRUE
    ELSE IF prev.status # "None" THEN TRUE
    ELSE FALSE

\* mutant: the lastmod test is inverted
should_fetch_OnEqualLastmod(full_refresh, bootstrap, existing, prev, lastmod) ==
    IF full_refresh THEN TRUE
    ELSE IF bootstrap /\ existing THEN FALSE
    ELSE IF ~existing THEN TRUE
    ELSE IF prev.lastmod = lastmod THEN TRUE
    ELSE IF prev.status \notin {"None", "ok"} THEN TRUE
    ELSE FALSE

\* mutant: there is no bootstrap shortcut
should_fetch_NoBootstrap(full_refresh, bootstrap, existing, prev, lastmod) ==
    IF full_refresh THEN TRUE
    ELSE IF ~existing THEN TRUE
    ELSE IF prev.lastmod # lastmod THEN TRUE
    ELSE IF prev.status \notin {"None", "ok"} THEN TRUE
    ELSE FALSE

\* mutant: a stored status `absent` is treated like `ok`
should_fetch_AbsentIsOk(full_refresh, bootstrap, existing, prev, lastmod) ==
    IF full_refresh THEN TRUE
    ELSE IF bootstrap /\ existing THEN FALSE
    ELSE IF ~existing THEN TRUE
    ELSE IF prev.lastmod # lastmod THEN TRUE
    ELSE IF prev.status \notin {"None", "ok", "absent"} THEN TRUE
    ELSE FALSE

\* mutant: a stored status `error` is not retried
should_fetch_ErrorNotRetried(full_refresh, bootstrap, existing, prev, lastmod) ==
    IF full_refresh THEN TRUE
    ELSE IF bootstrap /\ existing THEN FALSE
    ELSE IF ~existing THEN TRUE
    ELSE IF prev.lastmod # lastmod THEN TRUE
    ELSE IF prev.status \notin {"None", "ok", "error"} THEN TRUE
    ELSE FALSE

\* mutant: bootstrap mode reuses whether or not a Record exists
should_fetch_BootstrapReusesAll(full_refresh, bootstrap, existing, prev, lastmod) ==
    IF full_refresh THEN TRUE
    ELSE IF bootstrap THEN FALSE
    ELSE IF ~existing THEN TRUE
    ELSE IF prev.lastmod # lastmod THEN TRUE
    ELSE IF prev.status \notin {"None", "ok"} THEN TRUE
    ELSE FALSE

should_fetch(full_refresh, bootstrap, existing, prev, lastmod) ==
    IF full_refresh THEN TRUE
    ELSE IF bootstrap /\ existing THEN FALSE
    ELSE IF ~existing THEN TRUE
    ELSE IF prev.lastmod # lastmod THEN TRUE
    ELSE IF prev.status \notin {"None", "ok"} THEN TRUE
    ELSE FALSE

\* state entry written on the reuse path
ReuseState(prev, existing, lastmod) ==
    merge_state_entry(prev,
        [lastmod |-> lastmod,
         status |-> IF existing THEN "ok"
                    ELSE IF prev.status = "None" THEN "unknown" ELSE prev.status,
         missingStreak |-> prev.missingStreak,
         absentStreak |-> 0])

\* ------------------------------------------------------ _process_fetch_result
\* outcome: [status, record]; returns the entry's next state and whether
\* next_records[slug] is set ("new": the fetched record, "old": existing, "no")
\* mutant: the error branch leaves absentStreak as it was
FoldState_ErrorKeepsAbsentStreak(prev, lastmod, outcome) ==
    IF outcome.status = "ok" THEN
        merge_state_entry(prev, [lastmod |-> lastmod, status |-> "ok",
                                 missingStreak |-> 0, absentStreak |-> 0])
    ELSE IF outcome.status = "missing" THEN
        merge_state_entry(prev, [lastmod |-> lastmod, status |-> "missing",
                                 missingStreak |-> prev.missingStreak + 1,
                                 absentStreak |-> 0])
    ELSE
        merge_state_entry(prev, [lastmod |-> lastmod, status |-> "error"])

\* mutant: the ok branch leaves the streaks as they were
FoldState_OkKeepsStreaks(prev, lastmod, outcome) ==
    IF outcome.status = "ok" THEN
        merge_state_entry(prev, [lastmod |-> lastmod, status |-> "ok"])
    ELSE IF outcome.status = "missing" THEN
        merge_state_entry(prev, [lastmod |-> lastmod, status |-> "missing",
                                 missingStreak |-> prev.missingStreak + 1,
                                 absentStreak |-> 0])
    ELSE
        merge_state_entry(prev, [lastmod |-> lastmod, status |-> "error",
                                 absentStreak |-> 0])

\* mutant: the missing branch leaves absentStreak as it was
FoldState_MissingKeepsAbsentStreak(prev, lastmod, outcome) ==
    IF outcome.status = "ok" THEN
        merge_state_entry(prev, [lastmod |-> lastmod, status |-> "ok",
                                 missingStreak |-> 0, absentStreak |-> 0])
    ELSE IF outcome.status = "missing" THEN
        merge_state_entry(prev, [lastmod |-> lastmod, status |-> "missing",
                                 missingStreak |-> prev.missingStreak + 1])
    ELSE
        merge_state_entry(prev, [lastmod |-> lastmod, status |-> "error",
                                 absentStreak |-> 0])

FoldState(prev, lastmod, outcome) ==
    IF outcome.status = "ok" THEN
        merge_state_entry(prev, [lastmod |-> lastmod, status |-> "ok",
                                 missingStreak |-> 0, absentStreak |-> 0])
    ELSE IF outcome.status = "missing" THEN
        merge_state_entry(prev, [lastmod |-> lastmod, status |-> "missing",
                                 missingStreak |-> prev.missingStreak + 1,
                                 absentStreak |-> 0])
    ELSE
        merge_state_entry(prev, [lastmod |-> lastmod, status |-> "error",
                                 absentStreak |-> 0])

\* mutant: the grace test of the missing branch is inclusive
keep_existing_Inclusive(existing, missing_streak) ==
    existing /\ missing_streak <= MISSING_GRACE_RUNS

keep_existing(existing, missing_streak) ==
    existing /\ missing_streak < MISSING_GRACE_RUNS

\* mutant: the error branch applies the missing grace test
FoldRecord_ErrorUsesGrace(prev, existing, outcome) ==
    IF outcome.status = "ok" THEN "new"
    ELSE IF keep_existing(existing, prev.missingStreak + 1) THEN "old" ELSE "no"

FoldRecord(prev, existing, outcome) ==
    IF outcome.status = "ok" THEN "new"
    ELSE IF outcome.status = "missing" THEN
        IF keep_existing(existing, prev.missingStreak + 1) THEN "old" ELSE "no"
    ELSE IF existing THEN "old" ELSE "no"

\* --------------------------------------------------------------- drop guard
\* (prev_count - new_count) / prev_count > DROP_GUARD_RATIO and not force_accept_drop,
\* under prev_count > 0.  The float quotient is correctly rounded and 0.30 is the
\* double nearest 3/10, so for counts of this size the comparison is the exact one.
\* mutant: the threshold test is inclusive
DropGuardTrips_Inclusive(prev_count, new_count, force_accept_drop) ==
    /\ prev_count > 0
    /\ 100 * (prev_count - new_count) >= DROP_GUARD_PCT * prev_count
    /\ ~force_accept_drop

DropGuardTrips(prev_count, new_count, force_accept_drop) ==
    /\ prev_count > 0
    /\ 100 * (prev_count - new_count) > DROP_GUARD_PCT * prev_count
    /\ ~force_accept_drop

\* ------------------------------------------------------------ absent handling
\* state entry of a slug with rows that is neither in next_records nor discovered
AbsentState(prev) ==
    merge_state_entry(prev, [status |-> "absent", absentStreak |-> prev.absentStreak + 1])

\* mutant: the grace test is inclusive
retain_absent_Inclusive(prev) == prev.absentStreak + 1 <= ABSENT_GRACE_RUNS

retain_absent(prev) == prev.absentStreak + 1 < ABSENT_GRACE_RUNS

\* ------------------------------------------------------------------ one run
\* the possible results of fetch_and_parse_medicament
Outcomes ==
    {[status |-> "ok", record |-> c] : c \in FetchedContents}
    \cup {[status |-> "missing", record |-> 0], [status |-> "error", record |-> 0]}

\* to_fetch, as a set
ToFetch(rows_by_slug, recs, sitemap, discovered_slugs, full_refresh) ==
    {s \in discovered_slugs :
        should_fetch(full_refresh, bootstrap_mode(recs, full_refresh),
                     HasExisting(rows_by_slug, s), StateGet(recs, s), sitemap[s])}

\* what next_records holds for a slug: "new", "old" or "no"
NextRecord(rows_by_slug, recs, s, discovered_slugs, to_fetch, outcomes) ==
    IF s \in to_fetch THEN
        FoldRecord(StateGet(recs, s), HasExisting(rows_by_slug, s), outcomes[s])
    ELSE IF s \in discovered_slugs /\ HasExisting(rows_by_slug, s) THEN "old"
    ELSE "no"

\* the slugs of the absent loop: rows exist, not in next_records, not discovered
AbsentSlugs(rows_by_slug, discovered_slugs) ==
    {s \in Slugs \ discovered_slugs : HasExisting(rows_by_slug, s)}

\* mutant: the absent loop writes no state entry
NextState_SkippingAbsent(rows_by_slug, recs, sitemap, discovered_slugs, to_fetch, outcomes) ==
    [s \in discovered_slugs |->
        IF s \in to_fetch THEN FoldState(StateGet(recs, s), sitemap[s], outcomes[s])
        ELSE ReuseState(StateGet(recs, s), HasExisting(rows_by_slug, s), sitemap[s])]

\* next_state_records
NextState(rows_by_slug, recs, sitemap, discovered_slugs, to_fetch, outcomes) ==
    [s \in discovered_slugs \cup AbsentSlugs(rows_by_slug, discovered_slugs) |->
        IF s \in to_fetch THEN FoldState(StateGet(recs, s), sitemap[s], outcomes[s])
        ELSE IF s \in discovered_slugs THEN
            ReuseState(StateGet(recs, s), HasExisting(rows_by_slug, s), sitemap[s])
        ELSE AbsentState(StateGet(recs, s))]

\* mutant: a fetched Record replaces all the rows of its slug
OutputRows_CollapsingDuplicates(rows_by_slug, recs, discovered_slugs, to_fetch, outcomes) ==
    [s \in Slugs |->
        LET rows == rows_by_slug[s]
            rest == IF rows = <<>> THEN <<>> ELSE Tail(rows)
            nr == NextRecord(rows_by_slug, recs, s, discovered_slugs, to_fetch, outcomes)
        IN IF nr = "new" THEN <<outcomes[s].record>>
           ELSE IF nr = "old" THEN SortRows(<<Head(rows)>> \o rest)
           ELSE IF s \in discovered_slugs THEN <<>>
           ELSE IF rows # <<>> /\ retain_absent(StateGet(recs, s)) THEN SortRows(rows)
           ELSE <<>>]

\* output_records, grouped by slug
OutputRows(rows_by_slug, recs, discovered_slugs, to_fetch, outcomes) ==
    [s \in Slugs |->
        LET rows == rows_by_slug[s]
            rest == IF rows = <<>> THEN <<>> ELSE Tail(rows)
            nr == NextRecord(rows_by_slug, recs, s, discovered_slugs, to_fetch, outcomes)
        IN IF nr = "new" THEN SortRows(<<outcomes[s].record>> \o rest)
           ELSE IF nr = "old" THEN SortRows(<<Head(rows)>> \o rest)
           ELSE IF s \in discovered_slugs THEN <<>>
           ELSE IF rows # <<>> /\ retain_absent(StateGet(recs, s)) THEN SortRows(rows)
           ELSE <<>>]

NoRun ==
    [exit |-> -1, wrote |-> FALSE, full_refresh |-> FALSE, force_accept_drop |-> FALSE,
     dry_run |-> FALSE, limit |-> 0, sitemap |-> [s \in Slugs |-> Unlisted],
     failed |-> {},
     discovered |-> {}, to_fetch |-> {}, outcome |-> [s \in Slugs |-> "none"],
     prev_count |-> 0, new_count |-> 0]

NoUpstream == [ran |-> FALSE, sitemap |-> NoRun.sitemap, outcome |-> NoRun.outcome]

NoBlocked ==
    [ran |-> FALSE, sitemap |-> NoRun.sitemap, discovered |-> {}, outcome |-> NoRun.outcome]

NoGuard == [prev_count |-> 0, new_count |-> 0, force_accept_drop |-> FALSE, exit |-> -1]

\* a part that is not being followed
Off == [pc |-> "off"]

Init ==
    /\ catalogue \in {c \in SUBSET Slugs : c # {}}
    /\ budget = MaxRunsCatalogue
    /\ dataset \in {d \in [Slugs -> LegacyRows] : \A s \in Slugs \ catalogue : d[s] = <<>>}
    /\ state_records = << >>
    /\ pc = "idle"
    /\ prev_dataset = dataset
    /\ prev_state = state_records
    /\ run = NoRun
    /\ missing_runs = [s \in Slugs |-> 0]
    /\ absent_runs = [s \in Slugs |-> 0]
    /\ upstream = NoUpstream
    /\ blocked = NoBlocked
    /\ guard = NoGuard
    /\ limiter = Off /\ fetch = Off /\ persist = Off /\ decide = Off /\ page = Off

\* the sitemaps the upstream site can serve
Sitemaps ==
    {m \in [Slugs -> Lastmods \cup {Unlisted}] : \A s \in Slugs \ catalogue : m[s] = Unlisted}

\* all_entries when parse_sitemap_entries raised for some sub-sitemaps: each slug
\* is listed by a sub-sitemap of its own, and `failed` holds the slugs of the
\* sub-sitemaps that could not be read; their entries are not in all_entries
AllEntries(served, failed) ==
    [s \in Slugs |-> IF s \in failed THEN Unlisted ELSE served[s]]

Spend(b, cat) == IF Cardinality(cat) > 1 THEN b - 1 ELSE b

\* main() returning 1 before anything is fetched: bad --request-delay/--request-jitter
\* or an unreadable sitemap index; or main() left by an exception of a fetch call
\* in sequential mode (the interpreter exits with 1): nothing is written
RunFatal ==
    /\ pc = "idle" /\ budget > 0
    /\ pc' = "exited"
    /\ budget' = Spend(budget, catalogue)
    /\ run' = [NoRun EXCEPT !.exit = EXIT_FATAL]
    /\ prev_dataset' = dataset
    /\ prev_state' = state_records
    /\ UNCHANGED <<dataset, state_records, catalogue, observers, parts>>

\* the two files are written when the guard has not tripped and the run is not dry
\* mutant: a tripped guard does not hold back the writes of a run that is not dry
ShouldWrite_ThoughTripped(tripped, dry_run) == tripped \/ ~dry_run

\* mutant: the files are written before the guard's verdict is acted on
ShouldWrite_IgnoringGuard(tripped, dry_run) == ~dry_run

ShouldWrite(tripped, dry_run) == ~tripped /\ ~dry_run

\* mutant: --limit leaves --dry-run as it was given
dry_run_enabled_AsGiven(dry_run, limit) == dry_run

\* args.dry_run after `if args.limit and args.limit > 0 and not args.dry_run`
dry_run_enabled(dry_run, limit) == dry_run \/ limit > 0

\* --dry-run and --limit as given; with --limit > 0 the run is a dry run whether
\* --dry-run is given or not, so --limit is drawn without --dry-run
CommandLines ==
    {[dry_run |-> d, limit |-> 0] : d \in BOOLEAN}
    \cup {[dry_run |-> FALSE, limit |-> MaxLimit]}

\* main() past discovery
Run ==
    /\ pc = "idle" /\ budget > 0
    /\ \E full_refresh \in BOOLEAN, cli \in CommandLines, served \in Sitemaps :
      \E failed \in {f \in SUBSET catalogue : \A s \in f : served[s] # Unlisted} :
      LET sitemap == AllEntries(served, failed)
          limit == cli.limit
          dry_run == dry_run_enabled(cli.dry_run, limit)
          discovered_slugs == SeqToSet(Discovered(sitemap, limit))
          to_fetch == ToFetch(dataset, state_records, sitemap, discovered_slugs, full_refresh)
      IN \E outcomes \in [to_fetch -> Outcomes] :
          LET next_state_records ==
                  NextState(dataset, state_records, sitemap, discovered_slugs,
                            to_fetch, outcomes)
              output_records ==
                  OutputRows(dataset, state_records, discovered_slugs, to_fetch, outcomes)
              prev_count == CountRows(dataset)
              new_count == CountRows(output_records)
          IN \* --force-accept-drop is read by the drop guard alone: it is drawn
             \* where the guard would trip without it
             \E force_accept_drop \in
                    IF DropGuardTrips(prev_count, new_count, FALSE) THEN BOOLEAN ELSE {FALSE} :
               LET tripped == DropGuardTrips(prev_count, new_count, force_accept_drop)
                   write == ShouldWrite(tripped, dry_run)
                   outcome == [s \in Slugs |->
                                 IF s \in to_fetch THEN outcomes[s].status
                                 ELSE IF s \in discovered_slugs THEN "reuse"
                                 ELSE "none"]
               IN /\ \A s \in to_fetch :
                         outcomes[s].status = "missing"
                             => StateGet(state_records, s).missingStreak < MaxMissingStreak
                  /\ dataset' = IF write THEN output_records ELSE dataset
                  /\ state_records' = IF write THEN next_state_records ELSE state_records
                  /\ prev_dataset' = dataset
                  /\ prev_state' = state_records
                  /\ run' = [exit |-> IF tripped THEN EXIT_DROP_GUARD ELSE EXIT_OK,
                             wrote |-> write,
                             full_refresh |-> full_refresh,
                             force_accept_drop |-> force_accept_drop,
                             dry_run |-> dry_run,
                             limit |-> limit,
                             sitemap |-> sitemap,
                             failed |-> failed,
                             discovered |-> discovered_slugs,
                             to_fetch |-> to_fetch,
                             outcome |-> outcome,
                             prev_count |-> prev_count,
                             new_count |-> new_count]
                  /\ missing_runs' =
                        IF write
                        THEN [s \in Slugs |-> IF outcome[s] = "missing"
                                              THEN missing_runs[s] + 1 ELSE 0]
                        ELSE missing_runs
                  /\ absent_runs' =
                        IF write
                        THEN [s \in Slugs |->
                                IF HasExisting(dataset, s) /\ s \notin discovered_slugs
                                THEN absent_runs[s] + 1 ELSE 0]
                        ELSE absent_runs
    /\ pc' = "exited"
    /\ budget' = Spend(budget, catalogue)
    /\ UNCHANGED <<catalogue, upstream, blocked, parts>>

\* the updater process is gone: only the two files remain
ProcessExit ==
    /\ pc = "exited"
    /\ pc' = "idle"
    /\ prev_dataset' = dataset
    /\ prev_state' = state_records
    /\ run' = NoRun
    /\ upstream' =
          IF run.wrote
          THEN [ran |-> TRUE, sitemap |-> run.sitemap, outcome |-> run.outcome]
          ELSE upstream
    /\ blocked' =
          IF run.exit = EXIT_DROP_GUARD
          THEN [ran |-> TRUE, sitemap |-> run.sitemap, discovered |-> run.discovered,
                outcome |-> run.outcome]
          ELSE IF run.wrote THEN NoBlocked
          ELSE blocked
    /\ UNCHANGED <<dataset, state_records, catalogue, budget, missing_runs, absent_runs, parts>>

Next == Run \/ RunFatal \/ ProcessExit

Spec == Init /\ [][Next]_vars

\* ------------------------------------------------- the drop guard on its own
\* the guard of main() applied to any two counts up to MaxGuardCount
\* no run of main() is followed: the engine's variables stay as they are here
Parked(p) ==
    /\ pc = p
    /\ catalogue = {}
    /\ budget = 0
    /\ dataset = [s \in Slugs |-> <<>>]
    /\ state_records = << >>
    /\ prev_dataset = dataset
    /\ prev_state = state_records
    /\ run = NoRun
    /\ missing_runs = [s \in Slugs |-> 0]
    /\ absent_runs = [s \in Slugs |-> 0]
    /\ upstream = NoUpstream
    /\ blocked = NoBlocked

InitGuard ==
    /\ guard \in [prev_count : 0..MaxGuardCount, new_count : 0..MaxGuardCount,
                  force_accept_drop : BOOLEAN, exit : {-1}]
    /\ Parked("guard")
    /\ limiter = Off /\ fetch = Off /\ persist = Off /\ decide = Off /\ page = Off

GuardCheck ==
    /\ pc = "guard" /\ guard.exit = -1
    /\ guard' = [guard EXCEPT !.exit =
                    IF DropGuardTrips(guard.prev_count, guard.new_count,
                                      guard.force_accept_drop)
                    THEN EXIT_DROP_GUARD ELSE EXIT_OK]
    /\ UNCHANGED <<engine, limiter, fetch, persist, decide, page>>

SpecGuard == InitGuard /\ [][GuardCheck]_vars

\* ------------------------------------------------- RateLimiter on its own
\* Times are whole ticks of time.monotonic(); one tick stands for 0.5 s.
Max(a, b) == IF a >= b THEN a ELSE b
Min(a, b) == IF a <= b THEN a ELSE b

\* request_sleep_delay(base_delay, jitter): the values it can return
request_sleep_delay(base_delay, jitter) ==
    IF jitter <= 0 THEN {base_delay}
    ELSE {Max(0, base_delay + u) : u \in (0 - jitter)..jitter}

\* mutant: two intervals are reserved after each slot
NextAllowed_TwoIntervals(now, wait_until, interval) == Max(now, wait_until) + 2 * interval

\* mutant: the next slot is counted from now, whatever slot was already given out
NextAllowed_FromNow(now, wait_until, interval) == now + interval

\* self._next_allowed = max(now, wait_until) + interval
NextAllowed(now, wait_until, interval) == Max(now, wait_until) + interval

\* a sequence without its i-th element
Without(q, i) == SubSeq(q, 1, i - 1) \o SubSeq(q, i + 1, Len(q))

\* RateLimiter(min_interval, jitter) and `threads` threads, none yet in wait().
\* The threads run the same code, so those inside wait() are kept by the
\* wait_until each one read, in the order of their critical sections.
InitLimiter ==
    /\ \E n \in 1..MaxWorkers, min_interval \in 0..MaxInterval, jitter \in {0, MaxJitter},
          clock \in 0..1 :
          limiter = [pc |-> "on",
                     threads |-> n,
                     min_interval |-> min_interval,
                     jitter |-> jitter,
                     clock |-> clock,
                     next_allowed |-> 0,
                     in_wait |-> <<>>,
                     granted |-> 0,
                     first_slot |-> 0,
                     last_slot |-> 0,
                     min_gap |-> MaxInterval + MaxJitter]
    /\ Parked("limiter")
    /\ guard = NoGuard /\ fetch = Off /\ persist = Off /\ decide = Off /\ page = Off

\* the `with self._lock:` block of wait(), which no other thread can interleave:
\* the caller is granted the slot max(now, wait_until)
Grant ==
    /\ Len(limiter.in_wait) < limiter.threads
    /\ limiter.granted < (IF limiter.jitter = 0 THEN MaxFetches ELSE MaxJitterFetches)
    /\ \E interval \in request_sleep_delay(limiter.min_interval, limiter.jitter) :
          LET now == limiter.clock
              wait_until == limiter.next_allowed
              slot == Max(now, wait_until)
          IN limiter' =
                [limiter EXCEPT
                    !.next_allowed = NextAllowed(now, wait_until, interval),
                    !.in_wait = Append(@, wait_until),
                    !.granted = @ + 1,
                    !.first_slot = IF limiter.granted = 0 THEN slot ELSE @,
                    !.last_slot = slot,
                    !.min_gap = IF limiter.granted = 0 THEN @
                                ELSE Min(@, slot - limiter.last_slot)]

\* delay = wait_until - time.monotonic(); time.sleep(delay) if delay > 0: wait()
\* returns, and the request starts, at some time not before wait_until
Start(i) ==
    /\ limiter.clock >= limiter.in_wait[i]
    /\ limiter' = [limiter EXCEPT !.in_wait = Without(@, i)]

\* delay = wait_until - time.monotonic() of the i-th thread inside wait(), if it
\* reads the clock now
Delay(i) == limiter.in_wait[i] - limiter.clock

\* time passes; it is followed up to one tick past the last slot given out, and a
\* thread is asleep at most MaxLate ticks past its wait_until
Tick ==
    /\ limiter.clock <= limiter.next_allowed
    /\ \A i \in 1..Len(limiter.in_wait) : limiter.clock < limiter.in_wait[i] + MaxLate
    /\ limiter' = [limiter EXCEPT !.clock = @ + 1]

LimiterStep ==
    /\ pc = "limiter"
    /\ \/ Grant
       \/ \E i \in 1..Len(limiter.in_wait) : Start(i)
       \/ Tick
    /\ UNCHANGED <<engine, guard, fetch, persist, decide, page>>

SpecLimiter == InitLimiter /\ [][LimiterStep]_vars

\* ------------------------------------------------- the fetch phase on its own
\* what a call of fetch_and_parse_medicament can end with: one of its return
\* values, or an exception raised outside its try block (in wait(), in the
\* parsing of the page or in the mapping of its details)
Raised == [status |-> "raised", record |-> 0]
FetchResults == Outcomes \cup {Raised}

\* except Exception around future.result(): a raised call is folded as an error
AsFolded(r) == IF r = Raised THEN [status |-> "error", record |-> 0] ELSE r

\* the state entries a fetched slug can have at the start of a run
PrevStates ==
    {EmptyState,
     [status |-> "ok", lastmod |-> "2024-01", missingStreak |-> 0, absentStreak |-> 0],
     [status |-> "missing", lastmod |-> "2024-01",
      missingStreak |-> MISSING_GRACE_RUNS - 1, absentStreak |-> 0],
     [status |-> "absent", lastmod |-> NoLastmod, missingStreak |-> 1, absentStreak |-> 2]}

\* f with f[k] = v
Put(f, k, v) == [x \in DOMAIN f \cup {k} |-> IF x = k THEN v ELSE f[x]]

\* mutant: the missing streak is taken from the run's count of missing fetches
ProcessFetchResult_ByArrival(f, s, r) ==
    [f EXCEPT
        !.next_records = Put(@, s, FoldRecord(f.prev[s], f.existing[s], r)),
        !.next_state_records =
            Put(@, s, IF r.status = "missing"
                      THEN [FoldState(f.prev[s], f.lastmod, r)
                                EXCEPT !.missingStreak = f.fetched_missing + 1]
                      ELSE FoldState(f.prev[s], f.lastmod, r)),
        !.fetched_ok = IF r.status = "ok" THEN @ + 1 ELSE @,
        !.fetched_missing = IF r.status = "missing" THEN @ + 1 ELSE @,
        !.fetched_error = IF r.status \notin {"ok", "missing"} THEN @ + 1 ELSE @,
        !.arrival = Append(@, s)]

\* _process_fetch_result(entry, slug, status, record, message) on the locals of main()
ProcessFetchResult(f, s, r) ==
    [f EXCEPT
        !.next_records = Put(@, s, FoldRecord(f.prev[s], f.existing[s], r)),
        !.next_state_records = Put(@, s, FoldState(f.prev[s], f.lastmod, r)),
        !.fetched_ok = IF r.status = "ok" THEN @ + 1 ELSE @,
        !.fetched_missing = IF r.status = "missing" THEN @ + 1 ELSE @,
        !.fetched_error = IF r.status \notin {"ok", "missing"} THEN @ + 1 ELSE @,
        !.arrival = Append(@, s)]

\* main() at the start of the fetch loops: to_fetch is not empty, nothing is folded;
\* `arrival` observes the order in which the outcomes are folded, `calls` the
\* number of calls of fetch_and_parse_medicament made for each entry
InitFetch ==
    /\ \E tf \in (SUBSET Slugs) \ {{}}, c \in 1..MaxConcurrency, lm \in Lastmods,
          ex \in [Slugs -> BOOLEAN], pv \in [Slugs -> PrevStates] :
          fetch = [pc |-> "fetching",
                   concurrency |-> c,
                   existing |-> ex,
                   prev |-> pv,
                   lastmod |-> lm,
                   to_fetch |-> SelectSeq(SlugList, LAMBDA s : s \in tf),
                   future |-> [s \in tf |-> "submitted"],
                   calls |-> [s \in tf |-> 0],
                   result |-> [s \in tf |-> [status |-> "none", record |-> 0]],
                   next_records |-> << >>,
                   next_state_records |-> << >>,
                   fetched_ok |-> 0,
                   fetched_missing |-> 0,
                   fetched_error |-> 0,
                   arrival |-> <<>>]
    /\ Parked("fetch")
    /\ guard = NoGuard /\ limiter = Off /\ persist = Off /\ decide = Off /\ page = Off

\* the entries of to_fetch not yet taken, in order
NotStarted(f) == SelectSeq(f.to_fetch, LAMBDA s : f.future[s] = "submitted")

\* sequential mode: one pass of the for loop.  An exception of the call is not
\* caught there and leaves main().
SeqFetch ==
    /\ fetch.pc = "fetching" /\ fetch.concurrency <= 1
    /\ NotStarted(fetch) # <<>>
    /\ LET s == Head(NotStarted(fetch))
       IN \E r \in FetchResults :
             fetch' =
                IF r = Raised
                THEN [fetch EXCEPT !.pc = "raised", !.future[s] = "raised", !.result[s] = r,
                                   !.calls[s] = @ + 1]
                ELSE ProcessFetchResult(
                        [fetch EXCEPT !.future[s] = "folded", !.result[s] = r,
                                      !.calls[s] = @ + 1], s, r)

\* parallel mode: a pool thread takes the next submitted call
ParStart ==
    /\ fetch.pc = "fetching" /\ fetch.concurrency > 1
    /\ NotStarted(fetch) # <<>>
    /\ Cardinality({s \in DOMAIN fetch.future : fetch.future[s] = "running"})
          < fetch.concurrency
    /\ fetch' = [fetch EXCEPT !.future[Head(NotStarted(fetch))] = "running",
                              !.calls[Head(NotStarted(fetch))] = @ + 1]

\* mutant: the pool thread folds its own result into the mappings of main()
ParDone_FoldsInWorker(s) ==
    /\ fetch.pc = "fetching" /\ fetch.concurrency > 1
    /\ fetch.future[s] = "running"
    /\ \E r \in FetchResults :
          fetch' = ProcessFetchResult(
                      [fetch EXCEPT !.future[s] = "folded", !.result[s] = r], s, AsFolded(r))

\* parallel mode: a call ends in its thread; its future holds the result or the exception
ParDone(s) ==
    /\ fetch.pc = "fetching" /\ fetch.concurrency > 1
    /\ fetch.future[s] = "running"
    /\ \E r \in FetchResults :
          fetch' = [fetch EXCEPT !.future[s] = "done", !.result[s] = r]

\* parallel mode: one pass of the as_completed loop, in the main thread
ParFold(s) ==
    /\ fetch.pc = "fetching" /\ fetch.concurrency > 1
    /\ fetch.future[s] = "done"
    /\ fetch' = ProcessFetchResult([fetch EXCEPT !.future[s] = "folded"], s,
                                   AsFolded(fetch.result[s]))

\* the loops are over: main() goes on to the absent handling and the merge
ReachMerge ==
    /\ fetch.pc = "fetching"
    /\ \A s \in DOMAIN fetch.future : fetch.future[s] = "folded"
    /\ fetch' = [fetch EXCEPT !.pc = "merged"]

FetchStep ==
    /\ pc = "fetch"
    /\ \/ SeqFetch
       \/ ParStart
       \/ \E s \in DOMAIN fetch.future : ParDone(s) \/ ParFold(s)
       \/ ReachMerge
    /\ UNCHANGED <<engine, guard, limiter, persist, decide, page>>

SpecFetch == InitFetch /\ [][FetchStep]_vars

\* the same with progress: the loop of main() and the pool threads keep running,
\* and every call of fetch_and_parse_medicament ends (bounded retries, each request
\* with a timeout)
SpecFetchFair == SpecFetch /\ WF_vars(FetchStep)

\* ------------------------------------------------- the two writes on their own
\* A file content is a sequence of tokens; NoFile is a file that does not exist.
NoFile == <<"no file">>
Tokens == {"x", "y"}

RECURSIVE SeqsUpTo(_)
SeqsUpTo(n) ==
    IF n = 0 THEN {<<>>}
    ELSE LET shorter == SeqsUpTo(n - 1)
         IN shorter \cup {Append(q, tok) : q \in {r \in shorter : Len(r) = n - 1},
                                           tok \in Tokens}

\* json.dumps(payload): the texts of the two payloads, and of the files as found
Payloads == SeqsUpTo(MaxPayload)

\* what a write_text cut short by a crash leaves in the file
ProperPrefixes(text) == {SubSeq(text, 1, n) : n \in 0..(Len(text) - 1)}

\* main() past the dry-run test: both files as read, both payloads computed
InitPersist ==
    /\ \E old_output \in Payloads, old_state \in Payloads,
          output_records \in Payloads, state_payload_out \in Payloads :
          persist = [pc |-> "write_output",
                     old_output |-> old_output,
                     old_state |-> old_state,
                     output_records |-> output_records,
                     state_payload_out |-> state_payload_out,
                     OUTPUT_JSON |-> old_output,
                     OUTPUT_TMP |-> NoFile,
                     STATE_JSON |-> old_state,
                     STATE_TMP |-> NoFile]
    /\ Parked("persist")
    /\ guard = NoGuard /\ limiter = Off /\ fetch = Off /\ decide = Off /\ page = Off

\* write_json(OUTPUT_JSON, output_records): tmp.write_text(...)
WriteOutputTmp ==
    /\ persist.pc = "write_output"
    /\ persist' = [persist EXCEPT !.pc = "replace_output",
                                  !.OUTPUT_TMP = persist.output_records]

\* write_json(OUTPUT_JSON, output_records): tmp.replace(path)
ReplaceOutput ==
    /\ persist.pc = "replace_output"
    /\ persist' = [persist EXCEPT !.pc = "write_state",
                                  !.OUTPUT_JSON = persist.OUTPUT_TMP,
                                  !.OUTPUT_TMP = NoFile]

\* write_json(STATE_JSON, state_payload_out): tmp.write_text(...)
WriteStateTmp ==
    /\ persist.pc = "write_state"
    /\ persist' = [persist EXCEPT !.pc = "replace_state",
                                  !.STATE_TMP = persist.state_payload_out]

\* write_json(STATE_JSON, state_payload_out): tmp.replace(path)
ReplaceState ==
    /\ persist.pc = "replace_state"
    /\ persist' = [persist EXCEPT !.pc = "done",
                                  !.STATE_JSON = persist.STATE_TMP,
                                  !.STATE_TMP = NoFile]

\* the process is killed; a write_text in progress leaves part of its text
Crash ==
    /\ persist.pc \notin {"done", "crashed"}
    /\ \/ persist' = [persist EXCEPT !.pc = "crashed"]
       \/ /\ persist.pc = "write_output"
          /\ \E part \in ProperPrefixes(persist.output_records) :
                persist' = [persist EXCEPT !.pc = "crashed", !.OUTPUT_TMP = part]
       \/ /\ persist.pc = "write_state"
          /\ \E part \in ProperPrefixes(persist.state_payload_out) :
                persist' = [persist EXCEPT !.pc = "crashed", !.STATE_TMP = part]

PersistStep ==
    /\ pc = "persist"
    /\ \/ WriteOutputTmp \/ ReplaceOutput \/ WriteStateTmp \/ ReplaceState
       \/ Crash
    /\ UNCHANGED <<engine, guard, limiter, fetch, decide, page>>

SpecPersist == InitPersist /\ [][PersistStep]_vars

\* ------------------------------------- the fetch-or-reuse decision on its own
\* prev_state.get("status") as it can be stored: absent from the entry, or one of
\* the values main() writes
Statuses == {"None", "ok", "missing", "error", "absent", "unknown"}

\* one pass of the classification loop: the state store is empty or not, and the
\* entry's slug has a state entry (of any stored status and lastmod) or has none
InitDecide ==
    /\ \E full_refresh \in BOOLEAN, store_empty \in BOOLEAN, existing \in BOOLEAN,
          lastmod \in Lastmods,
          prev \in {EmptyState}
                    \cup [status : Statuses, lastmod : Lastmods,
                          missingStreak : {0}, absentStreak : {0}] :
          /\ store_empty => prev = EmptyState
          /\ decide = [pc |-> "classify",
                       full_refresh |-> full_refresh,
                       store_empty |-> store_empty,
                       existing |-> existing,
                       prev_state |-> prev,
                       lastmod |-> lastmod,
                       should_fetch |-> "undecided"]
    /\ Parked("decide")
    /\ guard = NoGuard /\ limiter = Off /\ fetch = Off /\ persist = Off /\ page = Off

Decide ==
    /\ pc = "decide" /\ decide.pc = "classify"
    /\ LET recs == IF decide.store_empty THEN << >> ELSE [s \in {"some"} |-> EmptyState]
       IN decide' =
            [decide EXCEPT
                !.pc = "classified",
                !.should_fetch =
                    should_fetch(decide.full_refresh,
                                 bootstrap_mode(recs, decide.full_refresh),
                                 decide.existing, decide.prev_state, decide.lastmod)]
    /\ UNCHANGED <<engine, guard, limiter, fetch, persist, page>>

SpecDecide == InitDecide /\ [][Decide]_vars

\* ------------------------------------------------- one fetch_and_parse_medicament
\* the HTTP status codes the site can answer with
StatusCodes == {200, 403, 404, 410, 429, 500, 503}

\* what one request can come back with: get_with_retry raises after its retries
\* (`transport` is "failed"), or it returns a response with a status code and a
\* body; of the body: whether its title or text holds "page non trouv", whether it
\* has the .single-medicament container, an h1 in it, and a non-empty name in the h1
Answers ==
    [transport : {"failed", "response"},
     status_code : StatusCodes,
     marker : BOOLEAN,
     container : BOOLEAN,
     title_el : BOOLEAN,
     name : BOOLEAN]

\* the status fetch_and_parse_medicament returns for an answer
fetch_and_parse_medicament(a) ==
    IF a.transport = "failed" THEN "error"
    ELSE IF a.status_code >= 400 THEN "missing"
    ELSE IF a.marker THEN "missing"
    ELSE IF ~a.container THEN "error"
    ELSE IF ~a.title_el THEN "error"
    ELSE IF ~a.name THEN "error"
    ELSE "ok"

\* the request of one entry is about to be sent
InitPage ==
    /\ \E a \in Answers : page = [pc |-> "request", answer |-> a, status |-> "none"]
    /\ Parked("page")
    /\ guard = NoGuard /\ limiter = Off /\ fetch = Off /\ persist = Off /\ decide = Off

FetchAndParse ==
    /\ pc = "page" /\ page.pc = "request"
    /\ page' = [page EXCEPT !.pc = "returned",
                            !.status = fetch_and_parse_medicament(page.answer)]
    /\ UNCHANGED <<engine, guard, limiter, fetch, persist, decide>>

SpecPage == InitPage /\ [][FetchAndParse]_vars

\* ================================================================ properties
Exited == pc = "exited"
Wrote == pc = "exited" /\ run.wrote
HadRecord(s) == prev_dataset[s] # <<>>
HasRecord(s) == dataset[s] # <<>>
PrevEntry(s) == StateGet(prev_state, s)
Entry(s) == StateGet(state_records, s)

\* C1: no data loss from transient errors.  A slug that had a Record before a run
\* and has none after it was, in a run that wrote, either fetched `missing` with a
\* resulting missingStreak >= MISSING_GRACE_RUNS or not discovered with a resulting
\* absentStreak >= ABSENT_GRACE_RUNS; error, reuse and ok never remove a slug.
C1_NoLossFromTransientErrors ==
    Exited =>
        \A s \in Slugs :
            (HadRecord(s) /\ ~HasRecord(s)) =>
                /\ run.wrote
                /\ \/ /\ run.outcome[s] = "missing"
                      /\ Entry(s).missingStreak >= MISSING_GRACE_RUNS
                   \/ /\ s \notin run.discovered
                      /\ Entry(s).absentStreak >= ABSENT_GRACE_RUNS

\* a fetch error on a Record one `missing` away from being dropped keeps the Record
C1_Witness ==
    /\ Wrote
    /\ \E s \in Slugs :
          /\ HadRecord(s) /\ HasRecord(s)
          /\ run.outcome[s] = "error"
          /\ PrevEntry(s).missingStreak = MISSING_GRACE_RUNS - 1

\* C2: when a discovered entry's fetch outcome is `error`, its prior rows are in
\* the new dataset unchanged, whatever its streaks and its previous status, and
\* its next absentStreak is 0.
C2_ErrorRetainsRecord ==
    Wrote =>
        \A s \in Slugs :
            run.outcome[s] = "error" =>
                /\ dataset[s] = prev_dataset[s]
                /\ s \in DOMAIN state_records
                /\ state_records[s].status = "error"
                /\ state_records[s].absentStreak = 0

\* an entry back in the sitemap after absences fails to fetch: Record kept, absentStreak reset
C2_Witness ==
    /\ Wrote
    /\ \E s \in Slugs :
          /\ run.outcome[s] = "error"
          /\ HadRecord(s) /\ HasRecord(s)
          /\ PrevEntry(s).status = "absent"
          /\ PrevEntry(s).absentStreak > 1
          /\ Entry(s).absentStreak = 0

\* C3 (as claimed): an entry with a Record fetched `missing` in consecutive runs
\* that wrote keeps its rows on the 1st and 2nd such run and loses them on the
\* MISSING_GRACE_RUNS-th.
C3_MissingGraceByRuns ==
    Wrote =>
        \A s \in Slugs :
            (run.outcome[s] = "missing" /\ HadRecord(s)) =>
                IF missing_runs[s] < MISSING_GRACE_RUNS
                THEN dataset[s] = prev_dataset[s]
                ELSE dataset[s] = <<>>

\* C4: an entry with rows that is not discovered, in a run that wrote, gets
\* status `absent` and absentStreak one more than before, which is the number of
\* consecutive such runs; its rows are retained while that is below
\* ABSENT_GRACE_RUNS and are dropped when it reaches ABSENT_GRACE_RUNS.
C4_AbsentGrace ==
    Wrote =>
        \A s \in Slugs :
            (HadRecord(s) /\ s \notin run.discovered) =>
                /\ s \in DOMAIN state_records
                /\ state_records[s].status = "absent"
                /\ state_records[s].absentStreak = PrevEntry(s).absentStreak + 1
                /\ state_records[s].absentStreak = absent_runs[s]
                /\ absent_runs[s] <= ABSENT_GRACE_RUNS
                /\ IF absent_runs[s] < ABSENT_GRACE_RUNS
                   THEN dataset[s] = prev_dataset[s]
                   ELSE dataset[s] = <<>>

\* the ABSENT_GRACE_RUNS-th consecutive absence drops the rows
C4_Witness ==
    /\ Wrote
    /\ \E s \in Slugs :
          /\ HadRecord(s) /\ s \notin run.discovered
          /\ absent_runs[s] = ABSENT_GRACE_RUNS
          /\ ~HasRecord(s)

\* C5 (as claimed): state entries are never deleted: every slug with a state
\* entry before a run has one after it.
C5_StateRowsNeverDeleted ==
    Exited => \A s \in DOMAIN prev_state : s \in DOMAIN state_records

\* C7: when the drop guard trips, the run returns 2, a code no other exit of
\* main() returns, and neither file is written: both keep their pre-run content.
C7_TrippedGuardWritesNothing ==
    Exited =>
        /\ (run.exit = 2) =
              DropGuardTrips(run.prev_count, run.new_count, run.force_accept_drop)
        /\ run.exit = 2 =>
              /\ ~run.wrote
              /\ dataset = prev_dataset
              /\ state_records = prev_state
              /\ run.exit \notin {EXIT_OK, EXIT_FATAL}

\* the guard trips on a run that would have dropped a Record and advanced a streak
C7_Witness ==
    /\ Exited /\ run.exit = 2
    /\ \E s \in Slugs :
          /\ HadRecord(s)
          /\ run.outcome[s] = "missing"
          /\ PrevEntry(s).missingStreak = MISSING_GRACE_RUNS - 1

\* C9: outside full refresh, a discovered entry whose lastmod equals the stored
\* one and whose stored status is `ok` is reused, not fetched.
C9_UnchangedOkIsReused ==
    Exited =>
        \A s \in run.discovered :
            (/\ ~run.full_refresh
             /\ s \in DOMAIN prev_state
             /\ prev_state[s].status = "ok"
             /\ prev_state[s].lastmod = run.sitemap[s])
            => (s \notin run.to_fetch /\ run.outcome[s] = "reuse")

\* an incremental run (state store not empty) reuses an unchanged `ok` entry
C9_Witness ==
    /\ Exited
    /\ \E s \in run.discovered :
          /\ ~run.full_refresh
          /\ s \in DOMAIN prev_state
          /\ prev_state[s].status = "ok"
          /\ prev_state[s].lastmod = run.sitemap[s]
          /\ run.outcome[s] = "reuse"

\* C10: in every mode a discovered entry that has no Record is fetched.
C10_NoRecordIsFetched ==
    Exited =>
        \A s \in run.discovered : ~HadRecord(s) => s \in run.to_fetch

\* bootstrap mode, another slug has a Record and is reused, this one has none and is fetched
C10_Witness ==
    /\ Exited
    /\ DOMAIN prev_state = {} /\ ~run.full_refresh
    /\ \E s \in run.discovered, r \in run.discovered :
          /\ ~HadRecord(s) /\ s \in run.to_fetch
          /\ HadRecord(r) /\ run.outcome[r] = "reuse"

\* C6: the run fails with the drop guard (exit 2) exactly when previousCount > 0,
\* the override is off and (previousCount - newCount) / previousCount > 0.30
\* strictly: 100 -> 65 aborts, 100 -> 75 proceeds, a drop of exactly 30% proceeds,
\* previousCount = 0 or the override never fails.
C6_DropGuardThreshold ==
    guard.exit # -1 =>
        LET p == guard.prev_count
            n == guard.new_count
            aborts == guard.exit = EXIT_DROP_GUARD
        IN /\ aborts = (p > 0 /\ ~guard.force_accept_drop /\ 10 * (p - n) > 3 * p)
           /\ (p = 100 /\ n = 65 /\ ~guard.force_accept_drop) => aborts
           /\ (p = 100 /\ n = 75) => ~aborts
           /\ (p > 0 /\ 10 * (p - n) = 3 * p) => ~aborts
           /\ (p = 0 \/ guard.force_accept_drop) => ~aborts
           /\ ~aborts => guard.exit = EXIT_OK

\* previousCount = 100 and newCount = 65 without the override: the guard has aborted
C6_Witness ==
    /\ guard.exit = EXIT_DROP_GUARD
    /\ guard.prev_count = 100 /\ guard.new_count = 65 /\ ~guard.force_accept_drop

\* the process that just exited wrote, and saw the sitemap and the fetch outcomes
\* of the run that wrote before it
Repeat ==
    /\ Wrote
    /\ upstream.ran
    /\ run.sitemap = upstream.sitemap
    /\ \A s \in run.to_fetch :
          upstream.outcome[s] \in {"reuse", "none"} \/ run.outcome[s] = upstream.outcome[s]

SameStreaks(s) ==
    /\ Entry(s).missingStreak = PrevEntry(s).missingStreak
    /\ Entry(s).absentStreak = PrevEntry(s).absentStreak

\* C8 (as claimed): a second run with no upstream change yields the same dataset
\* and the same streaks for every entry, and fetches nothing.
C8_Idempotence ==
    Repeat =>
        /\ dataset = prev_dataset
        /\ \A s \in Slugs : SameStreaks(s)
        /\ run.to_fetch = {}

\* C8 (amended): a second run without full refresh and with no upstream change
\* does not fetch an entry whose status after the first run is `ok` and keeps its
\* rows and both its streaks; when every entry of the state store and of the
\* dataset is `ok` after the first run, the second run fetches nothing and yields
\* the same dataset and the same streaks.
C8_IdempotentWhenOk ==
    (Repeat /\ ~run.full_refresh) =>
        /\ \A s \in Slugs :
              PrevEntry(s).status = "ok" =>
                  /\ s \notin run.to_fetch
                  /\ dataset[s] = prev_dataset[s]
                  /\ Entry(s).status = "ok"
                  /\ SameStreaks(s)
        /\ (\A s \in Slugs :
              (HadRecord(s) \/ s \in DOMAIN prev_state) => PrevEntry(s).status = "ok")
           => /\ run.to_fetch = {}
              /\ dataset = prev_dataset
              /\ \A s \in Slugs : SameStreaks(s)

\* a slug fetched `ok` by the first run is reused by the second, which fetches nothing
C8_Witness ==
    /\ Repeat /\ ~run.full_refresh
    /\ run.to_fetch = {}
    /\ \E s \in Slugs :
          /\ upstream.outcome[s] = "ok"
          /\ run.outcome[s] = "reuse"
          /\ HasRecord(s) /\ dataset = prev_dataset

\* C11: bootstrap mode.  When the state store holds no entry at start, the dataset
\* is not empty and full refresh is off, every discovered entry that has a Record
\* is reused, not fetched, and its rows are carried over unchanged; the entries
\* fetched are exactly the discovered ones without a Record.
C11_BootstrapReuses ==
    (/\ Exited
     /\ DOMAIN prev_state = {}
     /\ ~run.full_refresh
     /\ CountRows(prev_dataset) > 0)
    => /\ \A s \in run.discovered :
             HadRecord(s) =>
                 /\ s \notin run.to_fetch
                 /\ run.outcome[s] = "reuse"
                 /\ dataset[s] = prev_dataset[s]
       /\ run.to_fetch = {s \in run.discovered : ~HadRecord(s)}

\* a bootstrap run that wrote: a listed entry with a Record was reused and now has
\* a state entry `ok` with the sitemap's lastmod
C11_Witness ==
    /\ Wrote
    /\ DOMAIN prev_state = {} /\ ~run.full_refresh
    /\ \E s \in run.discovered :
          /\ HadRecord(s) /\ run.outcome[s] = "reuse"
          /\ run.sitemap[s] # NoLastmod
          /\ dataset[s] = prev_dataset[s]
          /\ s \in DOMAIN state_records /\ state_records[s].status = "ok"


C13_DiscoveryAllOrNothing ==
    (Exited /\ run.failed # {}) =>
        /\ run.exit = EXIT_FATAL
        /\ run.to_fetch = {}
        /\ ~run.wrote
        /\ dataset = prev_dataset
        /\ state_records = prev_state


\* C14 (as claimed): per-entity failures never abort the run: in sequential and
\* in parallel mode a call that fails, an exception raised inside it included,
\* is folded as `error` for its entry alone, the other entries are still fetched
\* and folded, and the run reaches the merge step.
C14_PerEntityFailuresNeverAbort ==
    pc = "fetch" =>
        /\ fetch.pc # "raised"
        /\ fetch.pc = "merged" =>
              \A s \in DOMAIN fetch.future :
                  /\ s \in DOMAIN fetch.next_state_records
                  /\ fetch.result[s] = Raised
                        => fetch.next_state_records[s].status = "error"

\* the number of fetched entries whose folded outcome has the given status
CountStatus(f, status) ==
    Cardinality({s \in DOMAIN f.result : AsFolded(f.result[s]).status = status})

\* C15: folding is commutative over arrival order.  When the loops are over, what
\* was folded for each fetched slug, and the ok/missing/error counts, are
\* functions of the set of outcomes alone, whatever the order in which the
\* outcomes were folded.
C15_FoldIsCommutative ==
    (pc = "fetch" /\ fetch.pc = "merged") =>
        /\ DOMAIN fetch.next_state_records = DOMAIN fetch.future
        /\ DOMAIN fetch.next_records = DOMAIN fetch.future
        /\ \A s \in DOMAIN fetch.future :
              LET r == AsFolded(fetch.result[s])
              IN /\ fetch.next_state_records[s] = FoldState(fetch.prev[s], fetch.lastmod, r)
                 /\ fetch.next_records[s] = FoldRecord(fetch.prev[s], fetch.existing[s], r)
        /\ fetch.fetched_ok = CountStatus(fetch, "ok")
        /\ fetch.fetched_missing = CountStatus(fetch, "missing")
        /\ fetch.fetched_error = CountStatus(fetch, "error")

\* parallel mode, the loops are over: the outcome of the second entry of to_fetch,
\* a `missing` that uses up the grace, was folded before that of the first, an `ok`
C15_Witness ==
    /\ pc = "fetch" /\ fetch.pc = "merged" /\ fetch.concurrency > 1
    /\ Len(fetch.to_fetch) = 2
    /\ fetch.arrival = <<fetch.to_fetch[2], fetch.to_fetch[1]>>
    /\ fetch.result[fetch.to_fetch[1]].status = "ok"
    /\ fetch.result[fetch.to_fetch[2]].status = "missing"
    /\ fetch.next_state_records[fetch.to_fetch[2]].missingStreak = MISSING_GRACE_RUNS
    /\ fetch.fetched_ok = 1 /\ fetch.fetched_missing = 1


\* C16 (as claimed): the dataset and the state store are persisted atomically:
\* after a crash at any point of the persist phase the two files are both the
\* pre-run versions or both the post-run versions, and neither is partly written.
C16_AtomicPersist ==
    (pc = "persist" /\ persist.pc = "crashed") =>
        \/ /\ persist.OUTPUT_JSON = persist.old_output
           /\ persist.STATE_JSON = persist.old_state
        \/ /\ persist.OUTPUT_JSON = persist.output_records
           /\ persist.STATE_JSON = persist.state_payload_out


\* C17: legacy duplicate rows are never collapsed implicitly.  A slug with k >= 2
\* rows before a run that wrote and still in the dataset after it (reused, fetched
\* ok, retained under missing or error, or retained as absent) has exactly k rows
\* after it, and its rows other than the first are among them unchanged.
C17_DuplicatesPreserved ==
    Wrote =>
        \A s \in Slugs :
            (Len(prev_dataset[s]) >= 2 /\ HasRecord(s)) =>
                /\ Len(dataset[s]) = Len(prev_dataset[s])
                /\ \E i \in 1..Len(dataset[s]) :
                      Without(dataset[s], i) = Tail(prev_dataset[s])

\* a slug with two legacy rows is fetched ok: the fetched Record takes the place of
\* the first row and the second row is still there
C17_Witness ==
    /\ Wrote
    /\ \E s \in Slugs :
          /\ Len(prev_dataset[s]) = 2
          /\ run.outcome[s] = "ok"
          /\ Len(dataset[s]) = 2
          /\ \E i \in 1..2 : dataset[s][i] \in FetchedContents
          /\ \E i \in 1..2 : dataset[s][i] = prev_dataset[s][2]
          /\ \A i \in 1..2 : dataset[s][i] # prev_dataset[s][1]


\* C18: the fetch-or-reuse decision is the fixed priority list: full refresh =>
\* fetch; else no Record => fetch; else bootstrap mode => reuse; else lastmod
\* differs from the stored one => fetch; else a stored status other than `ok`
\* => fetch; else (status `ok`, or no stored status) reuse.
C18_PriorityList ==
    (pc = "decide" /\ decide.pc = "classified") =>
        LET bootstrap == decide.store_empty /\ ~decide.full_refresh
            listed ==
                IF decide.full_refresh THEN TRUE
                ELSE IF ~decide.existing THEN TRUE
                ELSE IF bootstrap THEN FALSE
                ELSE IF decide.prev_state.lastmod # decide.lastmod THEN TRUE
                ELSE IF decide.prev_state.status \notin {"ok", "None"} THEN TRUE
                ELSE FALSE
        IN decide.should_fetch = listed

\* a Record whose stored status is `absent` and whose lastmod is the stored one
\* has been classified: it is fetched
C18_Witness ==
    /\ pc = "decide" /\ decide.pc = "classified"
    /\ ~decide.full_refresh /\ ~decide.store_empty /\ decide.existing
    /\ decide.prev_state.status = "absent"
    /\ decide.prev_state.lastmod = decide.lastmod
    /\ decide.should_fetch = TRUE


\* C19: retry until recovery.  A discovered entry whose stored status is `missing`
\* or `error` is fetched, never reused, in every run in which it is discovered,
\* with or without a Record; its stored status leaves `missing`/`error` through a
\* fetch only when that fetch returns `ok`.
C19_RetryUntilRecovery ==
    Exited =>
        \A s \in run.discovered :
            (s \in DOMAIN prev_state /\ prev_state[s].status \in {"missing", "error"}) =>
                /\ s \in run.to_fetch
                /\ run.outcome[s] \in {"ok", "missing", "error"}
                /\ (run.wrote /\ run.outcome[s] # "ok")
                      => state_records[s].status \in {"missing", "error"}

\* not a full refresh: an entry with a Record, stored status `error` and an
\* unchanged lastmod is fetched again, and fails again
C19_Witness ==
    /\ Wrote /\ ~run.full_refresh
    /\ \E s \in run.discovered :
          /\ HadRecord(s)
          /\ s \in DOMAIN prev_state
          /\ prev_state[s].status = "error"
          /\ prev_state[s].lastmod = run.sitemap[s]
          /\ s \in run.to_fetch
          /\ run.outcome[s] = "error"

\* C20 (as claimed): streak invariant.  In every run that wrote and for every
\* entry with a state entry after it: missingStreak is one more than before when
\* the run's fetch outcome is `missing` and is 0 otherwise; absentStreak is one
\* more than before when the entry is not discovered and is 0 otherwise; the two
\* streaks are never both non-zero.
C20_StreakInvariant ==
    Wrote =>
        \A s \in DOMAIN state_records :
            /\ state_records[s].missingStreak =
                  (IF run.outcome[s] = "missing" THEN PrevEntry(s).missingStreak + 1 ELSE 0)
            /\ state_records[s].absentStreak =
                  (IF s \notin run.discovered THEN PrevEntry(s).absentStreak + 1 ELSE 0)
            /\ ~(state_records[s].missingStreak > 0 /\ state_records[s].absentStreak > 0)


\* C21: every state entry whose status is `ok` has missingStreak = 0 and
\* absentStreak = 0, after any sequence of runs, whether the entry became `ok`
\* through a fetch or was carried over through the reuse path.
C21_OkHasNoStreak ==
    \A s \in DOMAIN state_records :
        state_records[s].status = "ok" =>
            /\ state_records[s].missingStreak = 0
            /\ state_records[s].absentStreak = 0

\* an entry absent for several runs after a `missing` is back in the sitemap and
\* its fetch returns ok: both streaks, non-zero before, are 0
C21_Witness ==
    /\ Wrote
    /\ \E s \in Slugs :
          /\ PrevEntry(s).status = "absent"
          /\ PrevEntry(s).missingStreak > 0
          /\ PrevEntry(s).absentStreak > 1
          /\ run.outcome[s] = "ok"
          /\ Entry(s).status = "ok"
          /\ Entry(s).missingStreak = 0 /\ Entry(s).absentStreak = 0

\* C22: in the state store written by a run, an entry has status `absent` only if
\* it was not discovered in that run; every discovered entry has a status other
\* than `absent` and absentStreak = 0.
C22_AbsentOnlyIfUndiscovered ==
    Wrote =>
        \A s \in DOMAIN state_records :
            /\ state_records[s].status = "absent" => s \notin run.discovered
            /\ s \in run.discovered =>
                  /\ state_records[s].status # "absent"
                  /\ state_records[s].absentStreak = 0

\* an entry stored as `absent` is discovered again and fetched `missing`: its
\* status is `missing` and its absentStreak is back to 0
C22_Witness ==
    /\ Wrote
    /\ \E s \in run.discovered :
          /\ PrevEntry(s).status = "absent"
          /\ PrevEntry(s).absentStreak > 0
          /\ run.outcome[s] = "missing"
          /\ state_records[s].status = "missing"
          /\ state_records[s].absentStreak = 0


\* the mappings next_records and next_state_records of main() are written in this step
MappingsWritten ==
    \/ fetch'.next_records # fetch.next_records
    \/ fetch'.next_state_records # fetch.next_state_records

\* C23 (as stated): with a worker pool, the next dataset and next state mappings
\* are written only after all fetch outcomes of the batch have been collected: no
\* write happens while a fetch of the batch is still queued or in flight.
C23_WrittenAfterAllCollected ==
    [][(pc = "fetch" /\ fetch.pc = "fetching" /\ fetch.concurrency > 1 /\ MappingsWritten) =>
          \A t \in DOMAIN fetch.future : fetch.future[t] \in {"done", "folded"}]_vars

\* C23 (amended): the mappings are written only by the coordinating thread, one
\* outcome at a time: a step that writes them folds exactly one entry whose
\* outcome that thread holds (its own call in sequential mode, a completed future
\* in pool mode), and no pool thread moves in that step; a step of a pool thread
\* writes neither mapping.  Other fetches may still be in flight.
C23_WrittenByCoordinatorOnly ==
    [][(pc = "fetch" /\ fetch.pc = "fetching" /\ MappingsWritten) =>
          \E s \in DOMAIN fetch.future :
             /\ fetch.future[s] = (IF fetch.concurrency > 1 THEN "done" ELSE "submitted")
             /\ fetch'.future[s] = "folded"
             /\ \A t \in DOMAIN fetch.future \ {s} : fetch'.future[t] = fetch.future[t]
             /\ fetch'.arrival = Append(fetch.arrival, s)]_vars

\* pool mode: one outcome is folded into the mappings while another fetch of the
\* same batch is still running in its thread
C23_Witness ==
    /\ pc = "fetch" /\ fetch.pc = "fetching" /\ fetch.concurrency > 1
    /\ \E s, t \in DOMAIN fetch.future :
          /\ fetch.future[s] = "folded"
          /\ s \in DOMAIN fetch.next_state_records
          /\ fetch.future[t] = "running"


\* the explicit not-found signals: HTTP not-found, or the not-found marker in a
\* page served without an HTTP error
NotFoundSignal(a) ==
    /\ a.transport = "response"
    /\ \/ a.status_code \in {404, 410}
       \/ a.status_code < 400 /\ a.marker

\* C24: a fetch yields exactly one of ok, missing, error; `missing` only on an
\* explicit not-found signal (HTTP not-found or the not-found marker); a transport
\* failure, a server-side error response and an unexpected page structure yield
\* `error`.
C24_MissingOnlyOnNotFound ==
    (pc = "page" /\ page.pc = "returned") =>
        LET a == page.answer
        IN /\ page.status \in {"ok", "missing", "error"}
           /\ page.status = "missing" => NotFoundSignal(a)
           /\ a.transport = "failed" => page.status = "error"
           /\ (a.transport = "response" /\ a.status_code >= 500) => page.status = "error"
           /\ (/\ a.transport = "response" /\ a.status_code < 400 /\ ~a.marker
               /\ ~(a.container /\ a.title_el /\ a.name)) => page.status = "error"


\* C25 (as stated): with jitter = 0, the delay a single wait() call sleeps never
\* exceeds min_interval, for any number of threads and any interleaving.
C25_WaitBoundedByInterval ==
    (pc = "limiter" /\ limiter.jitter = 0) =>
        \A i \in 1..Len(limiter.in_wait) : Delay(i) <= limiter.min_interval

\* C25 (amended): with jitter = 0, the delay a single wait() call sleeps never
\* exceeds min_interval times the number of threads that call wait(); with one
\* thread it never exceeds min_interval.
C25_WaitBoundedByThreads ==
    (pc = "limiter" /\ limiter.jitter = 0) =>
        \A i \in 1..Len(limiter.in_wait) :
            Delay(i) <= limiter.threads * limiter.min_interval

\* several threads, no jitter: a thread inside wait() has to sleep min_interval
\* times the number of threads, which is more than min_interval
C25_Witness ==
    /\ pc = "limiter" /\ limiter.jitter = 0 /\ limiter.min_interval > 0
    /\ limiter.threads > 1
    /\ \E i \in 1..Len(limiter.in_wait) :
          /\ Delay(i) = limiter.threads * limiter.min_interval
          /\ Delay(i) > limiter.min_interval


\* C26: once a run has written the two files, starting from an empty state store:
\* every state entry with status `ok` has at least one row in the dataset, and
\* every slug with a row in the dataset has a state entry.
C26_DatasetAndStateAgree ==
    (Wrote \/ upstream.ran) =>
        \A s \in Slugs :
            /\ (s \in DOMAIN state_records /\ state_records[s].status = "ok") => HasRecord(s)
            /\ HasRecord(s) => s \in DOMAIN state_records

\* the first run that writes: one slug of the first dataset is reused as `ok`,
\* another is not in the sitemap, keeps its rows and gets its state entry
C26_Witness ==
    /\ Wrote /\ prev_state = << >>
    /\ \E s, u \in Slugs :
          /\ HadRecord(s) /\ run.outcome[s] = "reuse"
          /\ HasRecord(s) /\ Entry(s).status = "ok" /\ s \in DOMAIN state_records
          /\ HadRecord(u) /\ u \notin run.discovered
          /\ HasRecord(u) /\ u \in DOMAIN state_records
          /\ state_records[u].status = "absent"

\* C27: in every state of the two files, an entry with status `missing` and a
\* row in the dataset has missingStreak < MISSING_GRACE_RUNS, and an entry with
\* status `absent` and a row in the dataset has absentStreak < ABSENT_GRACE_RUNS.
C27_RetainedWithinGrace ==
    \A s \in DOMAIN state_records :
        HasRecord(s) =>
            /\ state_records[s].status = "missing"
                  => state_records[s].missingStreak < MISSING_GRACE_RUNS
            /\ state_records[s].status = "absent"
                  => state_records[s].absentStreak < ABSENT_GRACE_RUNS

\* both grace periods at their last run: an entry fetched `missing` keeps its rows
\* with missingStreak = MISSING_GRACE_RUNS - 1, or an entry out of the sitemap
\* keeps its rows with absentStreak = ABSENT_GRACE_RUNS - 1
C27_Witness ==
    /\ Wrote
    /\ \E s \in DOMAIN state_records :
          /\ HasRecord(s)
          /\ \/ /\ run.outcome[s] = "missing"
                /\ state_records[s].status = "missing"
                /\ state_records[s].missingStreak = MISSING_GRACE_RUNS - 1
             \/ /\ s \notin run.discovered
                /\ state_records[s].status = "absent"
                /\ state_records[s].absentStreak = ABSENT_GRACE_RUNS - 1


\* C28: a tripped drop guard blocks for good.  After a run that the guard stopped,
\* and while no run has written, every run without --force-accept-drop that has
\* the same discovery and the same fetch outcomes is stopped again, and the
\* dataset, the statuses and the streaks stay as they were.
C28_TrippedGuardBlocksForGood ==
    (/\ Exited /\ blocked.ran
     /\ run.exit # EXIT_FATAL /\ ~run.force_accept_drop
     /\ run.sitemap = blocked.sitemap
     /\ run.discovered = blocked.discovered
     /\ run.outcome = blocked.outcome) =>
        /\ run.exit = EXIT_DROP_GUARD
        /\ ~run.wrote
        /\ dataset = prev_dataset
        /\ state_records = prev_state

\* the run after the one that would have dropped an entry at the end of its absent
\* grace: stopped again, the rows are still there and absentStreak is still
\* ABSENT_GRACE_RUNS - 1
C28_Witness ==
    /\ Exited /\ blocked.ran /\ ~run.force_accept_drop /\ ~run.dry_run
    /\ run.sitemap = blocked.sitemap /\ run.outcome = blocked.outcome
    /\ run.exit = EXIT_DROP_GUARD
    /\ \E s \in Slugs \ run.discovered :
          /\ HasRecord(s)
          /\ PrevEntry(s).absentStreak = ABSENT_GRACE_RUNS - 1
          /\ Entry(s).absentStreak = ABSENT_GRACE_RUNS - 1


\* the number of times s occurs in the sequence q
Occurrences(q, s) == Cardinality({i \in 1..Len(q) : q[i] = s})

\* every entry of to_fetch was fetched once and folded once, and the three
\* counters add up to the number of entries fetched
FetchedAndFoldedOnce ==
    /\ \A s \in DOMAIN fetch.future :
          fetch.calls[s] = 1 /\ Occurrences(fetch.arrival, s) = 1
    /\ Len(fetch.arrival) = Len(fetch.to_fetch)
    /\ fetch.fetched_ok + fetch.fetched_missing + fetch.fetched_error = Len(fetch.to_fetch)

\* C29: every entry classified as fetch is fetched exactly once and its outcome
\* folded exactly once before the merge step starts, for any pool size >= 1 and
\* any interleaving of the threads; the fetch phase always terminates, and at its
\* end fetched_ok + fetched_missing + fetched_error is the number fetched.
C29_FetchedOnceAndMerged ==
    <>(pc = "fetch" /\ fetch.pc = "merged" /\ FetchedAndFoldedOnce)


\* C30: a run with --limit > 0 never writes either file, so an entry cut off by the
\* limit gets no absentStreak increment and loses no row; any dry run leaves both
\* files as they were, and the drop guard is still evaluated and gives its exit code.
C30_LimitAndDryRunWriteNothing ==
    (Exited /\ run.exit # EXIT_FATAL /\ (run.limit > 0 \/ run.dry_run)) =>
        /\ ~run.wrote
        /\ dataset = prev_dataset
        /\ state_records = prev_state
        /\ run.exit = IF DropGuardTrips(run.prev_count, run.new_count, run.force_accept_drop)
                      THEN EXIT_DROP_GUARD ELSE EXIT_OK

\* --limit without --dry-run: an entry with rows is listed in the sitemap and cut
\* off by the limit; its rows and its state entry are what they were
C30_Witness ==
    /\ Exited /\ run.limit > 0 /\ run.dry_run /\ ~run.wrote
    /\ \E s \in Slugs :
          /\ run.sitemap[s] # Unlisted
          /\ s \notin run.discovered
          /\ HadRecord(s) /\ dataset[s] = prev_dataset[s]
          /\ Entry(s) = PrevEntry(s)

====
